---- MODULE Spec2Model ----
(***************************************************************************)
(* A model of youtube_sentiment/youtube.py: the memoized resolver          *)
(* properties of Channel and Video (channel_id, uploads_id, video_ids,     *)
(* comment_threads), the pagination loops that fill them, and the batched  *)
(* fetch loops (fetch_videos, fetch_comments) with their per-batch         *)
(* flatteners (_fetch_video_batch, _fetch_comment_batch).                  *)
(*                                                                         *)
(* One behaviour is the lifetime of one object, a Channel or a Video.      *)
(* The Google API client is the environment: what a request's execute()    *)
(* returns, and whether it raises, is an input of the step that executes   *)
(* it.  JSON objects are records, and a key that is absent from a JSON     *)
(* object is a field that is absent from the record (DOMAIN).              *)
(***************************************************************************)
EXTENDS Integers, Sequences, FiniteSets, TLC

\* ------------------------------------------------------------ constants

\* The step of range(0, len(...), 50) and the width of the slice [i : i + 50].
VideoBatchSize == 50
CommentBatchSize == 50
\* maxResults of the two listing requests: the page-size ceiling of the API.
PlaylistMaxResults == 50
ThreadMaxResults == 100

\* ------------------------------------------------------------ bounds

\* Pages of one listing (the K of a K-page source).
MaxPages == 3
\* Items of a short (not full) page.
SmallPage == 1
\* Items a channels lookup may return for one handle.
MaxChannels == 2
\* Batch responses of one fetch that differ from the plain one.
MaxOdd == 1

\* ------------------------------------------------------------ helpers

Min(a, b) == IF a < b THEN a ELSE b

\* A slice that takes the element at hi as well.
SliceInclusive(s, lo, hi) == SubSeq(s, lo + 1, Min(hi + 1, Len(s)))

\* Python's s[lo : hi] for 0 <= lo <= hi: the elements at 0-based positions
\* lo .. hi-1 that exist; a hi past the end is clamped, never an error.
Slice(s, lo, hi) == SubSeq(s, lo + 1, Min(hi, Len(s)))

\* Python's range(0, n, step) as the sequence of its values.
RECURSIVE RangeFrom(_, _, _)
RangeFrom(lo, n, step) ==
    IF lo >= n THEN <<>> ELSE <<lo>> \o RangeFrom(lo + step, n, step)

PyRange(n, step) == RangeFrom(0, n, step)

\* Python's str() of a non-negative int.
Digits == <<"0", "1", "2", "3", "4", "5", "6", "7", "8", "9">>

RECURSIVE Str(_)
Str(k) ==
    IF k < 10 THEN Digits[k + 1] ELSE Str(k \div 10) \o Digits[(k % 10) + 1]

\* The concatenation of a sequence of sequences, in order.
RECURSIVE Flat(_)
Flat(ss) == IF ss = <<>> THEN <<>> ELSE Head(ss) \o Flat(Tail(ss))

\* ------------------------------------------------------------ the API: listings

\* The kind a listing's items are expected to carry, and one they are not.
ThreadKind == "youtube#commentThread"
VideoKind == "youtube#video"
OtherKind == "youtube#playlist"

\* The sizes of a listing's pages: empty, short, or as long as one batch of
\* the fetch loop, which the ceiling maxResults of either listing allows.
PageSizes(max) == {0, SmallPage, Min(max, VideoBatchSize)}

SizeSeqs(max) == UNION {[1..k -> PageSizes(max)] : k \in 1..MaxPages}

\* What a listing can serve: the page sizes, and how its items look.
\*   clean:  every item of the expected kind, distinct ids
\*   mixed:  every second item of another kind
\*   dups:   every item of the expected kind, ids repeating
\*   broken: the second item lacks its kind key
Patterns == {"clean", "mixed", "dups", "broken"}

\* A behaviour varies one part of the API's data widely and keeps the rest
\* plain: the channels behind the handle ("resolve"), or the listings and the
\* batch responses ("fetch").
Sources(focus, max) ==
    IF focus = "fetch" THEN [sizes : SizeSeqs(max), pat : Patterns]
    ELSE {[sizes |-> <<SmallPage>>, pat |-> "clean"]}

RECURSIVE SumTo(_, _)
SumTo(sizes, p) == IF p = 0 THEN 0 ELSE sizes[p] + SumTo(sizes, p - 1)

\* The id of the g-th item of a listing.
ItemId(pat, g) == IF pat = "dups" THEN (g % 2) + 1 ELSE g

ItemKind(pat, g, expected) ==
    IF pat = "mixed" /\ g % 2 = 0 THEN OtherKind ELSE expected

\* One commentThreads item: {"kind": ..., "id": ...}.
ThreadItem(pat, g) ==
    IF pat = "broken" /\ g = 2
    THEN [id |-> ItemId(pat, g)]
    ELSE [kind |-> ItemKind(pat, g, ThreadKind), id |-> ItemId(pat, g)]

\* One playlistItems item: {"snippet": {"resourceId": {"kind": ..., "videoId": ...}}};
\* a resource of another kind carries no videoId.
PlaylistItem(pat, g) ==
    IF pat = "broken" /\ g = 2
    THEN [snippet |-> [resourceId |-> [videoId |-> ItemId(pat, g)]]]
    ELSE IF ItemKind(pat, g, VideoKind) = VideoKind
         THEN [snippet |-> [resourceId |->
                  [kind |-> VideoKind, videoId |-> ItemId(pat, g)]]]
         ELSE [snippet |-> [resourceId |->
                  [kind |-> OtherKind, playlistId |-> ItemId(pat, g)]]]

\* The pages a source serves: response["items"] of page 1, page 2, ...
ThreadPages(src) ==
    [p \in 1..Len(src.sizes) |->
        [j \in 1..src.sizes[p] |->
            ThreadItem(src.pat, SumTo(src.sizes, p - 1) + j)]]

PlaylistPages(src) ==
    [p \in 1..Len(src.sizes) |->
        [j \in 1..src.sizes[p] |->
            PlaylistItem(src.pat, SumTo(src.sizes, p - 1) + j)]]

\* ------------------------------------------------------------ pagination

\* The position of the first item of a page at which the loop body raises a
\* lookup error (raises: a set of positions), one past the end when none does.
FirstOf(raises, len) ==
    IF raises = {} THEN len + 1
    ELSE CHOOSE k \in raises : \A j \in raises : k <= j

\* for item in response["items"]: if item["kind"] == ...: append(item["id"]).
\* The loop runs up to the first item that lacks a key it reads: the lookup
\* raises there, inside the try, with the matching items before it already
\* appended to acc.  ok is FALSE when that happened.
ScanThreads(items, acc) ==
    LET raises == {k \in 1..Len(items) :
                      \/ "kind" \notin DOMAIN items[k]
                      \/ items[k].kind = ThreadKind /\ "id" \notin DOMAIN items[k]}
        stop == FirstOf(raises, Len(items))
        hits == SelectSeq(SubSeq(items, 1, stop - 1),
                          LAMBDA item : item.kind = ThreadKind)
    IN  [ids |-> acc \o [k \in 1..Len(hits) |-> hits[k].id],
         ok |-> raises = {}]

\* resource = item["snippet"]["resourceId"]; if resource["kind"] ==
\* "youtube#video": append(resource["videoId"]).
ScanPlaylist(items, acc) ==
    LET resources == [k \in 1..Len(items) |-> items[k].snippet.resourceId]
        raises == {k \in 1..Len(items) :
                      \/ "kind" \notin DOMAIN resources[k]
                      \/ resources[k].kind = VideoKind
                            /\ "videoId" \notin DOMAIN resources[k]}
        stop == FirstOf(raises, Len(items))
        hits == SelectSeq(SubSeq(resources, 1, stop - 1),
                          LAMBDA resource : resource.kind = VideoKind)
    IN  [ids |-> acc \o [k \in 1..Len(hits) |-> hits[k].videoId],
         ok |-> raises = {}]

\* A request, as the log of executed requests records it: the resource, the
\* filter (forHandle, playlistId, videoId), the page asked for (0 when the
\* request is not a listing's) and the ids joined into its id parameter.
Request(resource, arg, page, ids) ==
    [resource |-> resource, arg |-> arg, page |-> page, ids |-> ids]

\* A list_next that gives None one page early.
ListNextEarly(pages, k) == IF k + 1 < Len(pages) THEN k + 1 ELSE 0

\* The request after page k: list_next gives None when the response carries no
\* further page token, that is when page k is the source's last page.
ListNext(pages, k) == IF k < Len(pages) THEN k + 1 ELSE 0

\* The loop without its try: the exception of execute() leaves it.
RECURSIVE PaginateUncaught(_, _, _, _, _, _)
PaginateUncaught(req, pages, failAt, k, acc, log) ==
    IF k = 0 THEN [ids |-> acc, calls |-> log, stop |-> "exhausted", exc |-> ""]
    ELSE LET log2 == Append(log, [req EXCEPT !.page = k]) IN
         IF k = failAt
         THEN [ids |-> <<>>, calls |-> log2, stop |-> "execute",
               exc |-> "HttpError"]
         ELSE LET scan == IF req.resource = "commentThreads"
                          THEN ScanThreads(pages[k], acc)
                          ELSE ScanPlaylist(pages[k], acc)
              IN  IF ~scan.ok
                  THEN [ids |-> scan.ids, calls |-> log2, stop |-> "item", exc |-> ""]
                  ELSE PaginateUncaught(req, pages, failAt,
                                        IF k < Len(pages) THEN k + 1 ELSE 0,
                                        scan.ids, log2)

\* while request: try: execute, scan, list_next; except: print, break.
\* req is the listing's first request, k the page the current request asks
\* for (0: request is None), failAt the page whose execute() raises (0: none
\* does).  The result is the accumulated id list, the requests executed, in
\* order, and how the loop ended: the request ran out ("exhausted"), an
\* execute() raised ("execute") or an item lookup raised ("item").
RECURSIVE Paginate(_, _, _, _, _, _)
Paginate(req, pages, failAt, k, acc, log) ==
    IF k = 0 THEN [ids |-> acc, calls |-> log, stop |-> "exhausted", exc |-> ""]
    ELSE LET log2 == Append(log, [req EXCEPT !.page = k]) IN
         IF k = failAt
         THEN [ids |-> acc, calls |-> log2, stop |-> "execute", exc |-> ""]
         ELSE LET scan == IF req.resource = "commentThreads"
                          THEN ScanThreads(pages[k], acc)
                          ELSE ScanPlaylist(pages[k], acc)
              IN  IF ~scan.ok
                  THEN [ids |-> scan.ids, calls |-> log2, stop |-> "item", exc |-> ""]
                  ELSE Paginate(req, pages, failAt, ListNext(pages, k), scan.ids, log2)

\* ------------------------------------------------------------ the API: batches

\* How the response to a batch request may differ from one well-formed item
\* per requested id, in request order: nothing, or one item (the first or the
\* last of the batch) is changed as `what` says.
OddWhats(cls) ==
    IF cls = "Channel"
    THEN {"gone", "other", "nokind", "notags", "nofave"}
    ELSE {"gone", "noauthor", "nocount", "swapped", "capped", "missing"}

Plain == [at |-> "first", what |-> "full"]

BatchResponses(focus, cls) ==
    IF focus = "fetch"
    THEN {Plain} \cup [at : {"first", "last"}, what : OddWhats(cls)]
    ELSE {Plain}

\* A videos item with every key _fetch_video_batch reads.
FullVideo(id) ==
    [kind |-> VideoKind, id |-> id,
     snippet |-> [publishedAt |-> "2024-01-01", title |-> "title",
                  description |-> "text", tags |-> <<"wh40k">>],
     statistics |-> [viewCount |-> "9", likeCount |-> "3",
                     favoriteCount |-> "0", commentCount |-> "1"]]

VideoItem(id, what) ==
    LET v == FullVideo(id) IN
    CASE what = "other" -> [kind |-> OtherKind, id |-> id]
      [] what = "nokind" -> [id |-> id, snippet |-> v.snippet,
                             statistics |-> v.statistics]
      [] what = "notags" ->
            [v EXCEPT !.snippet = [publishedAt |-> "2024-01-01",
                                   title |-> "title", description |-> "text"]]
      [] what = "nofave" ->
            [v EXCEPT !.statistics = [viewCount |-> "9", likeCount |-> "3",
                                      commentCount |-> "1"]]
      [] OTHER -> v

Reply(text) == [snippet |-> [textDisplay |-> text]]

TopComment(id) ==
    [textDisplay |-> Str(id), publishedAt |-> "2024-01-01",
     authorDisplayName |-> "user", likeCount |-> id % 12]

\* A commentThreads item with totalReplyCount cnt and the reply snippets of
\* the texts given.
Thread(id, cnt, texts) ==
    [kind |-> ThreadKind, id |-> id,
     snippet |-> [topLevelComment |-> [snippet |-> TopComment(id)],
                  totalReplyCount |-> cnt],
     replies |-> [comments |-> [k \in 1..Len(texts) |-> Reply(texts[k])]]]

\* The same without a replies key, as the API sends a thread without replies.
BareThread(id, cnt) ==
    [kind |-> ThreadKind, id |-> id,
     snippet |-> [topLevelComment |-> [snippet |-> TopComment(id)],
                  totalReplyCount |-> cnt]]

ThreadOf(id, what) ==
    CASE what = "two" -> Thread(id, 2, <<"first", "second">>)
      [] what = "swapped" -> Thread(id, 2, <<"second", "first">>)
      [] what = "capped" -> Thread(id, 3, <<"first", "second">>)
      [] what = "stale" -> Thread(id, 0, <<"first">>)
      [] what = "missing" -> BareThread(id, 1)
      [] what = "noauthor" ->
            [BareThread(id, 0) EXCEPT !.snippet.topLevelComment.snippet =
                [textDisplay |-> Str(id), publishedAt |-> "2024-01-01",
                 likeCount |-> id % 12]]
      [] what = "nocount" ->
            [BareThread(id, 0) EXCEPT !.snippet =
                [topLevelComment |-> [snippet |-> TopComment(id)]]]
      [] OTHER -> BareThread(id, 0)

\* What an unchanged item of a batch looks like: threads vary with their id.
PlainWhat(cls, id) ==
    IF cls = "Channel" THEN "full"
    ELSE IF id % 3 = 0 THEN "two" ELSE IF id % 3 = 2 THEN "stale" ELSE "full"

\* response["items"] of the batch request for the ids of `batch`.
BatchItems(cls, batch, resp) ==
    LET at == IF resp.at = "first" THEN 1 ELSE Len(batch)
        whatAt(k) == IF k = at /\ resp.what # "full"
                     THEN resp.what ELSE PlainWhat(cls, batch[k])
        kept == SelectSeq([k \in 1..Len(batch) |-> k],
                          LAMBDA k : ~(k = at /\ resp.what = "gone"))
    IN  [j \in 1..Len(kept) |->
            IF cls = "Channel"
            THEN VideoItem(batch[kept[j]], whatAt(kept[j]))
            ELSE ThreadOf(batch[kept[j]], whatAt(kept[j]))]

\* ------------------------------------------------------------ flattening

Has(r, keys) == keys \subseteq DOMAIN r

\* The body of _fetch_video_batch's loop for one item of kind youtube#video:
\* the row it appends to the columns, or a lookup error.
VideoRow(item) ==
    IF ~Has(item, {"id", "snippet", "statistics"})
       \/ ~Has(item.snippet, {"publishedAt", "title", "description", "tags"})
       \/ ~Has(item.statistics,
               {"viewCount", "likeCount", "favoriteCount", "commentCount"})
    THEN [ok |-> FALSE, row |-> <<>>]
    ELSE [ok |-> TRUE,
          row |-> [video_id |-> item.id,
                   published_dt |-> item.snippet.publishedAt,
                   video_title |-> item.snippet.title,
                   video_description |-> item.snippet.description,
                   video_tags |-> item.snippet.tags,
                   view_cnt |-> item.statistics.viewCount,
                   like_cnt |-> item.statistics.likeCount,
                   fave_cnt |-> item.statistics.favoriteCount,
                   comment_cnt |-> item.statistics.commentCount]]

\* A flattener that skips the items it cannot read instead of raising.
FlattenVideosLenient(items, rows) ==
    LET videos == SelectSeq(items, LAMBDA item :
                     /\ Has(item, {"kind"})
                     /\ item.kind = VideoKind
                     /\ VideoRow(item).ok)
    IN  [exc |-> "",
         df |-> rows \o [k \in 1..Len(videos) |-> VideoRow(videos[k]).row]]

\* for item in response["items"]: if item["kind"] == "youtube#video": ...
\* The columns grow together, so they are one sequence of rows, one per item
\* of kind youtube#video, in order; a lookup error at any item (its kind
\* absent, or a key of a video absent) leaves the function before any table
\* is built.
FlattenVideos(items, rows) ==
    IF \E k \in 1..Len(items) :
          \/ ~Has(items[k], {"kind"})
          \/ items[k].kind = VideoKind /\ ~VideoRow(items[k]).ok
    THEN [exc |-> "KeyError", df |-> <<>>]
    ELSE LET videos == SelectSeq(items, LAMBDA item : item.kind = VideoKind)
         IN  [exc |-> "",
              df |-> rows \o [k \in 1..Len(videos) |-> VideoRow(videos[k]).row]]

\* Replies taken whenever the item carries them, whatever its reply count.
RepliesAlways(item, reply_cnt) ==
    IF Has(item, {"replies"})
    THEN [ok |-> TRUE,
          list |-> [k \in 1..Len(item.replies.comments) |->
                       item.replies.comments[k].snippet.textDisplay]]
    ELSE [ok |-> reply_cnt = 0, list |-> <<>>]

\* if reply_cnt > 0: the textDisplay of each of item["replies"]["comments"],
\* in order; else the empty list.  ok is FALSE when a key is absent.
Replies(item, reply_cnt) ==
    IF reply_cnt > 0
    THEN IF ~Has(item, {"replies"}) \/ ~Has(item.replies, {"comments"})
            \/ \E k \in 1..Len(item.replies.comments) :
                  ~Has(item.replies.comments[k], {"snippet"})
                  \/ ~Has(item.replies.comments[k].snippet, {"textDisplay"})
         THEN [ok |-> FALSE, list |-> <<>>]
         ELSE [ok |-> TRUE,
               list |-> [k \in 1..Len(item.replies.comments) |->
                            item.replies.comments[k].snippet.textDisplay]]
    ELSE [ok |-> TRUE, list |-> <<>>]

\* The body of _fetch_comment_batch's loop for one item.
CommentRow(item) ==
    IF ~Has(item, {"snippet"})
       \/ ~Has(item.snippet, {"topLevelComment", "totalReplyCount"})
       \/ ~Has(item.snippet.topLevelComment, {"snippet"})
       \/ ~Has(item.snippet.topLevelComment.snippet,
               {"textDisplay", "publishedAt", "authorDisplayName", "likeCount"})
    THEN [ok |-> FALSE, row |-> <<>>]
    ELSE LET top_comment == item.snippet.topLevelComment.snippet
             reply_cnt == item.snippet.totalReplyCount
             replies == Replies(item, reply_cnt)
         IN  IF ~replies.ok THEN [ok |-> FALSE, row |-> <<>>]
             ELSE [ok |-> TRUE,
                   row |-> [comment |-> top_comment.textDisplay,
                            comment_dt |-> top_comment.publishedAt,
                            user_name |-> top_comment.authorDisplayName,
                            like_cnt |-> Str(top_comment.likeCount),
                            reply_cnt |-> Str(reply_cnt),
                            replies |-> replies.list]]

\* for item in response["items"]: ... one row per item, in order; a lookup
\* error at any item leaves the function before any table is built.
FlattenComments(items, rows) ==
    IF \E k \in 1..Len(items) : ~CommentRow(items[k]).ok
    THEN [exc |-> "KeyError", df |-> <<>>]
    ELSE [exc |-> "",
          df |-> rows \o [k \in 1..Len(items) |-> CommentRow(items[k]).row]]

\* A concat with its arguments in the other order.
ConcatFront(a, b) == b \o a

\* pl.concat([df, df2]): the rows of df followed by the rows of df2.
Concat(a, b) == a \o b

\* ------------------------------------------------------------ the API: channels

\* Channel.channel_handle and Video.video_id, fixed at construction.
Handle == "@LylaMev"
VideoId == "dQw4w9WgXcQ"

ChannelIds == <<"UC1", "UC2", "UC3", "UC4">>
PlaylistIds == <<"UU1", "UU2", "UU3", "UU4">>

\* One item of a channels response, asked for with part="id,contentDetails".
ChannelItem(c) ==
    [id |-> ChannelIds[c],
     contentDetails |-> [relatedPlaylists |-> [uploads |-> PlaylistIds[c]]]]

\* response["items"] of channels().list(forHandle=...): no channel, one
\* channel, or several channels for the one handle.
ChannelResponses(focus) ==
    IF focus = "resolve"
    THEN {<<>>, <<ChannelItem(1)>>, <<ChannelItem(2)>>}
            \cup {[k \in 1..m |-> ChannelItem(k)] : m \in 2..MaxChannels}
    ELSE {<<ChannelItem(1)>>}

\* ------------------------------------------------------------ state

VARIABLES
    self,       \* the class of the object: "Channel" or "Video"
    focus,      \* the part of the API's data that varies: "resolve" or "fetch"
    channels,   \* the API's data: what a channels lookup of the handle returns now
    cached,     \* the cached_property names stored in the object's __dict__
    attrs,      \* their stored values
    pc,         \* "idle", or the place of the running fetch: "loop", "concat"
    it,         \* the values the range iterator of the fetch loop has left
    i,          \* the fetch loop's i
    df,         \* the fetch loop's df
    df2,        \* the fetch loop's df2
    ret,        \* the last operation and how it ended
    calls,      \* the requests the current (or last) operation executed, in order
    response,   \* the response of the last request it executed outside a listing
    listing,    \* the last run of the pagination loop: how it ended, whether
                \* the current (or last) operation ran it and, while it is the
                \* last step taken, its source and its requests
    tables,     \* the batch tables the current (or last) fetch appended, in order
    odd,        \* the batch responses of that fetch that were not plain
    seen,       \* the properties that have returned a value
    first,      \* the value each returned first
    reran       \* the properties whose body ran again after they returned a value

vars == <<self, focus, channels, cached, attrs, pc, it, i, df, df2, ret,
          calls, response, listing, tables, odd, seen, first, reran>>

NoAttrs == [channel_id |-> "", uploads_id |-> "", video_ids |-> <<>>,
            comment_threads |-> <<>>]

NoResponse == [of |-> "none", items |-> <<>>, at |-> "first", what |-> "full"]

\* No source: a source has at least one page.
NoSource == [sizes |-> <<>>, pat |-> "clean"]

NoListing == [ran |-> FALSE, stop |-> "", exc |-> "", current |-> FALSE,
              src |-> NoSource, failAt |-> 0, calls |-> <<>>]

\* The record of the listing once a later step has been taken: that it ran
\* and how it ended stay; what the API served to it is let go.
Stale(l) == [l EXCEPT !.src = NoSource, !.failAt = 0, !.calls = <<>>]

Returned(op, exc, id, ids, table) ==
    [op |-> op, exc |-> exc, id |-> id, ids |-> ids, table |-> table]

Init ==
    /\ self \in {"Channel", "Video"}
    /\ focus \in IF self = "Channel" THEN {"resolve", "fetch"} ELSE {"fetch"}
    /\ channels \in IF self = "Channel" THEN ChannelResponses(focus) ELSE {<<>>}
    /\ cached = {}
    /\ attrs = NoAttrs
    /\ pc = "idle"
    /\ it = <<>>
    /\ i = 0
    /\ df = <<>>
    /\ df2 = <<>>
    /\ ret = Returned("__init__", "", "", <<>>, <<>>)
    /\ calls = <<>>
    /\ response = NoResponse
    /\ listing = NoListing
    /\ tables = <<>>
    /\ odd = 0
    /\ seen = {}
    /\ first = NoAttrs
    /\ reran = {}

\* ------------------------------------------------------------ resolver properties

\* What an operation carries from statement to statement: the object's
\* __dict__, the records of this module, and the value or exception so far.
Entry ==
    [cached |-> cached, attrs |-> attrs, seen |-> seen, first |-> first,
     reran |-> reran, listing |-> [Stale(listing) EXCEPT !.current = FALSE],
     calls |-> <<>>,
     response |-> NoResponse, exc |-> "", id |-> "", ids |-> <<>>]

\* A plain property: nothing is stored.
StoreNothing(names, name) == names

\* functools.cached_property: the value a property's body returned is stored
\* under the property's name; nothing is stored when the body raises.
Store(names, name) == names \cup {name}

\* channel_id without its ambiguity check.
ChannelIdFirst(items) ==
    IF Len(items) = 0 THEN [exc |-> "IndexError", id |-> ""]
    ELSE [exc |-> "", id |-> items[1].id]

\* The body of channel_id, from the response on: more than one item is the
\* ambiguity error; otherwise the id of items[0], an IndexError when there is
\* none.
ChannelIdOf(items) ==
    IF Len(items) > 1 THEN [exc |-> "RuntimeError", id |-> ""]
    ELSE IF Len(items) = 0 THEN [exc |-> "IndexError", id |-> ""]
    ELSE [exc |-> "", id |-> items[1].id]

\* uploads_id with the check len(items) != 1.
UploadsIdStrict(items) ==
    IF Len(items) # 1 THEN [exc |-> "RuntimeError", id |-> ""]
    ELSE [exc |-> "", id |-> items[1].contentDetails.relatedPlaylists.uploads]

\* The body of uploads_id, from the response on.
UploadsIdOf(items) ==
    IF Len(items) > 1 THEN [exc |-> "RuntimeError", id |-> ""]
    ELSE IF Len(items) = 0 THEN [exc |-> "IndexError", id |-> ""]
    ELSE [exc |-> "", id |-> items[1].contentDetails.relatedPlaylists.uploads]

\* An access of channel_id or uploads_id from st.  fail: the lookup's
\* execute() raises.
Resolve(st, name, fail) ==
    IF name \in st.cached THEN [st EXCEPT !.id = st.attrs[name]]
    ELSE LET st1 == [st EXCEPT
                        !.calls = Append(@, Request("channels", Handle, 0, <<>>)),
                        !.reran = IF name \in st.seen THEN @ \cup {name} ELSE @]
             st2 == [st1 EXCEPT !.response = [NoResponse EXCEPT
                                    !.of = "channels", !.items = channels]]
             r == IF name = "channel_id" THEN ChannelIdOf(channels)
                                         ELSE UploadsIdOf(channels)
         IN  IF fail THEN [st1 EXCEPT !.exc = "HttpError"]
             ELSE IF r.exc # "" THEN [st2 EXCEPT !.exc = r.exc]
             ELSE [st2 EXCEPT !.id = r.id,
                              !.cached = Store(@, name),
                              !.attrs[name] = r.id,
                              !.seen = @ \cup {name},
                              !.first[name] = IF name \in st.seen THEN @ ELSE r.id]

\* A listing that stores its result only when the loop ran to the end.
ListedComplete(st, name, req, pages, src, failAt) ==
    LET p == Paginate(req, pages, failAt, 1, <<>>, <<>>)
        st1 == [st EXCEPT
                   !.calls = @ \o p.calls,
                   !.ids = p.ids,
                   !.seen = @ \cup {name},
                   !.first[name] = IF name \in st.seen THEN @ ELSE p.ids,
                   !.listing = [ran |-> TRUE, stop |-> p.stop, exc |-> p.exc,
                                current |-> TRUE, src |-> src,
                                failAt |-> failAt, calls |-> p.calls]]
    IN  IF p.stop # "exhausted" THEN st1
        ELSE [st1 EXCEPT !.cached = Store(@, name), !.attrs[name] = p.ids]

\* The body of video_ids or comment_threads from st, once its first request is
\* built: the pagination loop over the pages of src.
Listed(st, name, req, pages, src, failAt) ==
    LET p == Paginate(req, pages, failAt, 1, <<>>, <<>>)
        st1 == [st EXCEPT
                   !.calls = @ \o p.calls,
                   !.listing = [ran |-> TRUE, stop |-> p.stop, exc |-> p.exc,
                                current |-> TRUE, src |-> src,
                                failAt |-> failAt, calls |-> p.calls]]
    IN  IF p.exc # "" THEN [st1 EXCEPT !.exc = p.exc]
        ELSE [st1 EXCEPT !.ids = p.ids,
                         !.cached = Store(@, name),
                         !.attrs[name] = p.ids,
                         !.seen = @ \cup {name},
                         !.first[name] = IF name \in st.seen THEN @ ELSE p.ids]

\* An access of video_ids from st: the request takes self.uploads_id, which
\* may raise, before the loop and outside its try.
VideoIds(st, src, failAt, fail) ==
    IF "video_ids" \in st.cached THEN [st EXCEPT !.ids = st.attrs.video_ids]
    ELSE LET st1 == [st EXCEPT !.reran = IF "video_ids" \in st.seen
                                         THEN @ \cup {"video_ids"} ELSE @]
             u == Resolve(st1, "uploads_id", fail)
         IN  IF u.exc # "" THEN u
             ELSE Listed([u EXCEPT !.id = ""], "video_ids",
                         Request("playlistItems", u.id, 0, <<>>),
                         PlaylistPages(src), src, failAt)

\* An access of comment_threads from st.
CommentThreads(st, src, failAt) ==
    IF "comment_threads" \in st.cached
    THEN [st EXCEPT !.ids = st.attrs.comment_threads]
    ELSE LET st1 == [st EXCEPT !.reran = IF "comment_threads" \in st.seen
                                         THEN @ \cup {"comment_threads"} ELSE @]
         IN  Listed(st1, "comment_threads",
                    Request("commentThreads", VideoId, 0, <<>>),
                    ThreadPages(src), src, failAt)

\* The object and the records after an operation's statements so far.
Keep(st) ==
    /\ cached' = st.cached
    /\ attrs' = st.attrs
    /\ seen' = st.seen
    /\ first' = st.first
    /\ reran' = st.reran
    /\ listing' = st.listing
    /\ calls' = st.calls
    /\ response' = st.response

\* A property access, a whole operation: it returns or raises.
Access(op, st) ==
    /\ pc = "idle"
    /\ Keep(st)
    /\ ret' = Returned(op, st.exc, st.id, st.ids, <<>>)
    /\ UNCHANGED <<self, focus, channels, pc, it, i, df, df2, tables, odd>>

\* The inputs an access of a property can consume: whether the lookup's
\* execute() raises, when the access executes a lookup; the source of the
\* listing and the page whose execute() raises, when it runs the listing.
LookupInputs(name) == IF name \in cached THEN {FALSE} ELSE BOOLEAN

ListingInputs(lists, max) ==
    IF lists
    THEN UNION {{[src |-> src, failAt |-> failAt] : failAt \in 0..Len(src.sizes)} :
                   src \in Sources(focus, max)}
    ELSE {[src |-> NoSource, failAt |-> 0]}

VideoIdsInputs(fail) ==
    ListingInputs("video_ids" \notin cached
                     /\ Resolve(Entry, "uploads_id", fail).exc = "",
                  PlaylistMaxResults)

CommentThreadsInputs ==
    ListingInputs("comment_threads" \notin cached, ThreadMaxResults)

GetChannelId ==
    /\ self = "Channel"
    /\ \E fail \in LookupInputs("channel_id") :
          Access("channel_id", Resolve(Entry, "channel_id", fail))

GetUploadsId ==
    /\ self = "Channel"
    /\ \E fail \in LookupInputs("uploads_id") :
          Access("uploads_id", Resolve(Entry, "uploads_id", fail))

GetVideoIds ==
    /\ self = "Channel"
    /\ \E fail \in LookupInputs("uploads_id") :
          \E in \in VideoIdsInputs(fail) :
             Access("video_ids", VideoIds(Entry, in.src, in.failAt, fail))

GetCommentThreads ==
    /\ self = "Video"
    /\ \E in \in CommentThreadsInputs :
          Access("comment_threads", CommentThreads(Entry, in.src, in.failAt))

\* The API's data changes between two operations.
ApiChange ==
    /\ self = "Channel"
    /\ pc = "idle"
    /\ channels' \in ChannelResponses(focus) \ {channels}
    /\ UNCHANGED <<self, focus, cached, attrs, pc, it, i, df, df2, ret, calls,
                   response, listing, tables, odd, seen, first, reran>>

\* ------------------------------------------------------------ fetches

\* _fetch_video_batch: the request for the joined ids, execute(), the loop
\* over the items, the table.  fail: execute() raises.
FetchVideoBatch(video_batch, resp, fail) ==
    IF fail THEN [exc |-> "HttpError", df |-> <<>>]
    ELSE FlattenVideos(BatchItems("Channel", video_batch, resp), <<>>)

\* _fetch_comment_batch, likewise.
FetchCommentBatch(comment_batch, resp, fail) ==
    IF fail THEN [exc |-> "HttpError", df |-> <<>>]
    ELSE FlattenComments(BatchItems("Video", comment_batch, resp), <<>>)

\* The head of fetch_videos and fetch_comments: the empty table with the
\* schema, then range(0, len(<the id list>), 50), whose argument is the first
\* access of the property.  An exception of that access leaves the fetch.
Begin(op, st, size) ==
    /\ pc = "idle"
    /\ Keep(st)
    /\ ret' = Returned(op, st.exc, "", <<>>, <<>>)
    /\ pc' = IF st.exc = "" THEN "loop" ELSE "idle"
    /\ it' = IF st.exc = "" THEN PyRange(Len(st.ids), size) ELSE <<>>
    /\ i' = 0
    /\ df' = <<>>
    /\ df2' = <<>>
    /\ tables' = <<>>
    /\ odd' = 0
    /\ UNCHANGED <<self, focus, channels>>

FetchVideos ==
    /\ self = "Channel"
    /\ \E fail \in LookupInputs("uploads_id") :
          \E in \in VideoIdsInputs(fail) :
             Begin("fetch_videos", VideoIds(Entry, in.src, in.failAt, fail),
                   VideoBatchSize)

FetchComments ==
    /\ self = "Video"
    /\ \E in \in CommentThreadsInputs :
          Begin("fetch_comments", CommentThreads(Entry, in.src, in.failAt),
                CommentBatchSize)

\* One turn of the loop up to the call of the batch function: i is the next
\* value of the range, the batch is the slice [i : i + 50] of the cached list,
\* and the batch function returns df2 or raises, which leaves the fetch with
\* df and every other local gone.
Turn(resource, batch, resp, fail, b) ==
    /\ pc = "loop"
    /\ it # <<>>
    /\ resp # Plain => odd < MaxOdd
    /\ odd' = IF resp # Plain /\ ~fail THEN odd + 1 ELSE odd
    /\ i' = IF b.exc = "" THEN Head(it) ELSE 0
    /\ it' = IF b.exc = "" THEN Tail(it) ELSE <<>>
    /\ calls' = Append(calls, Request(resource, "", 0, batch))
    /\ response' = IF fail THEN NoResponse
                   ELSE [of |-> "batch", items |-> <<>>,
                         at |-> resp.at, what |-> resp.what]
    /\ pc' = IF b.exc = "" THEN "concat" ELSE "idle"
    /\ df2' = b.df
    /\ df' = IF b.exc = "" THEN df ELSE <<>>
    /\ ret' = IF b.exc = "" THEN ret ELSE [ret EXCEPT !.exc = b.exc]
    /\ listing' = Stale(listing)
    /\ UNCHANGED <<self, focus, channels, cached, attrs, tables, seen, first,
                   reran>>

VideoTurn ==
    /\ self = "Channel"
    /\ pc = "loop" /\ it # <<>>
    /\ \E resp \in BatchResponses(focus, "Channel"), fail \in BOOLEAN :
          LET video_batch ==
                  Slice(attrs.video_ids, Head(it), Head(it) + VideoBatchSize)
          IN  Turn("videos", video_batch, resp, fail,
                   FetchVideoBatch(video_batch, resp, fail))

CommentTurn ==
    /\ self = "Video"
    /\ pc = "loop" /\ it # <<>>
    /\ \E resp \in BatchResponses(focus, "Video"), fail \in BOOLEAN :
          LET comment_batch ==
                  Slice(attrs.comment_threads, Head(it),
                        Head(it) + CommentBatchSize)
          IN  Turn("commentThreads", comment_batch, resp, fail,
                   FetchCommentBatch(comment_batch, resp, fail))

\* df = pl.concat([df, df2]), the end of the turn.
Append2 ==
    /\ pc = "concat"
    /\ df' = Concat(df, df2)
    /\ tables' = Append(tables, df2)
    /\ pc' = "loop"
    /\ listing' = Stale(listing)
    /\ UNCHANGED <<self, focus, channels, cached, attrs, it, i, df2, ret,
                   calls, response, odd, seen, first, reran>>

\* return df, once the range is exhausted.
Return ==
    /\ pc = "loop"
    /\ it = <<>>
    /\ ret' = [ret EXCEPT !.table = df]
    /\ pc' = "idle"
    /\ i' = 0
    /\ df' = <<>>
    /\ df2' = <<>>
    /\ listing' = Stale(listing)
    /\ UNCHANGED <<self, focus, channels, cached, attrs, it, calls, response,
                   tables, odd, seen, first, reran>>

Next ==
    \/ GetChannelId
    \/ GetUploadsId
    \/ GetVideoIds
    \/ GetCommentThreads
    \/ ApiChange
    \/ FetchVideos
    \/ FetchComments
    \/ VideoTurn
    \/ CommentTurn
    \/ Append2
    \/ Return

Spec == Init /\ [][Next]_vars

\* ------------------------------------------------------------ what the claims speak of

Fetching == ret.op \in {"fetch_videos", "fetch_comments"}

ListName == IF self = "Channel" THEN "video_ids" ELSE "comment_threads"

\* The cached id list of the object.
IdList == IF self = "Channel" THEN attrs.video_ids ELSE attrs.comment_threads

BatchSize == IF self = "Channel" THEN VideoBatchSize ELSE CommentBatchSize

\* The batch requests of the current (or last) operation, and their batches.
BatchCalls == SelectSeq(calls, LAMBDA c : c.page = 0 /\ c.resource # "channels")

Batches == [k \in 1..Len(BatchCalls) |-> BatchCalls[k].ids]

\* The listing requests of the current (or last) operation.
ListCalls == SelectSeq(calls, LAMBDA c : c.page > 0)

Ceil(a, b) == (a + b - 1) \div b

IsPrefix(s, t) == Len(s) <= Len(t) /\ s = SubSeq(t, 1, Len(s))

\* The pages the listing's source served, while the listing is the last step.
Served ==
    IF self = "Channel" THEN PlaylistPages(listing.src)
    ELSE ThreadPages(listing.src)

\* The ids of the items of the expected kind among `pages`, in source order.
MatchingIds(pages) ==
    LET all == Flat(pages) IN
    IF self = "Channel"
    THEN LET hits == SelectSeq(all, LAMBDA x :
                        x.snippet.resourceId.kind = VideoKind)
         IN  [k \in 1..Len(hits) |-> hits[k].snippet.resourceId.videoId]
    ELSE LET hits == SelectSeq(all, LAMBDA x : x.kind = ThreadKind)
         IN  [k \in 1..Len(hits) |-> hits[k].id]

\* Every item of `pages` carries its kind.
WellFormed(pages) ==
    \A p \in 1..Len(pages) : \A j \in 1..Len(pages[p]) :
        IF self = "Channel"
        THEN "kind" \in DOMAIN pages[p][j].snippet.resourceId
        ELSE "kind" \in DOMAIN pages[p][j]

\* The requests of pages 1..k of the listing, each once, in order.
PageRequests(k) ==
    [p \in 1..k |->
        IF self = "Channel"
        THEN Request("playlistItems", attrs.uploads_id, p, <<>>)
        ELSE Request("commentThreads", VideoId, p, <<>>)]

\* ------------------------------------------------------------ C1

\* C1: the batch requests of a fetch hold between 1 and 50 ids each, their
\* concatenation in the order issued is a prefix of the cached id list at
\* every moment of the fetch, and when the fetch returns there are exactly
\* ceil(N / 50) of them and the concatenation is the whole list (none when
\* N = 0).
C1_Batching ==
    Fetching =>
        /\ \A k \in 1..Len(Batches) :
              Len(Batches[k]) >= 1 /\ Len(Batches[k]) <= BatchSize
        /\ IsPrefix(Flat(Batches), IdList)
        /\ (pc = "idle" /\ ret.exc = "") =>
              /\ Len(Batches) = Ceil(Len(IdList), BatchSize)
              /\ Flat(Batches) = IdList

\* A fetch that returned after a full batch and a short one.
C1_Witness ==
    /\ Fetching /\ pc = "idle" /\ ret.exc = ""
    /\ Len(Batches) = 2
    /\ Len(Batches[1]) = BatchSize
    /\ Len(Batches[2]) < BatchSize

\* ------------------------------------------------------------ C2

\* C2: a listing over a K-page source in which no execute() raises and every
\* item is well formed returns, and memoizes, exactly the ids of the items of
\* the expected kind in source order, executes the request of each of the K
\* pages exactly once, in order, and ends because list_next gave no request.
C2_PaginationComplete ==
    (listing.src # NoSource /\ listing.failAt = 0 /\ WellFormed(Served)) =>
        /\ listing.stop = "exhausted"
        /\ listing.exc = "" /\ ret.exc = ""
        /\ ListName \in cached
        /\ IdList = MatchingIds(Served)
        /\ listing.calls = PageRequests(Len(listing.src.sizes))
        /\ ListCalls = listing.calls

\* Three pages, items of another kind among them, and two ids or more kept.
C2_Witness ==
    /\ listing.src # NoSource /\ listing.failAt = 0
    /\ listing.src.pat = "mixed"
    /\ Len(listing.src.sizes) = 3
    /\ Len(IdList) >= 2
    /\ Len(IdList) < Len(Flat(Served))

\* ------------------------------------------------------------ C3

\* C3: when the execute() of page k raises, the listing has executed the
\* requests of pages 1..k and no other, no exception leaves the property, and
\* the value returned and memoized is exactly the matching ids of pages
\* 1..k-1 in source order.
C3_PartialFailure ==
    (listing.src # NoSource /\ listing.stop = "execute") =>
        /\ listing.failAt \in 1..Len(listing.src.sizes)
        /\ listing.calls = PageRequests(listing.failAt)
        /\ ListCalls = listing.calls
        /\ listing.exc = "" /\ ret.exc = ""
        /\ ListName \in cached
        /\ IdList = MatchingIds(SubSeq(Served, 1, listing.failAt - 1))

\* The source fails on page 2 of 3 and page 1 had an item to keep.
C3_Witness ==
    /\ listing.src # NoSource /\ listing.stop = "execute"
    /\ Len(listing.src.sizes) = 3 /\ listing.failAt = 2
    /\ listing.src.sizes[3] > 0
    /\ IdList # <<>>
    /\ IdList = MatchingIds(SubSeq(Served, 1, 1))

\* ------------------------------------------------------------ C4

\* The items the last batch request was answered with.
ItemsServed == BatchItems(self, BatchCalls[Len(BatchCalls)].ids, response)

\* An item of a batch response lacks a key the flattener reads from it.
LacksField(item) ==
    IF self = "Channel"
    THEN \/ "kind" \notin DOMAIN item
         \/ /\ item.kind = VideoKind
            /\ \/ ~({"id", "snippet", "statistics"} \subseteq DOMAIN item)
               \/ ~({"publishedAt", "title", "description", "tags"}
                       \subseteq DOMAIN item.snippet)
               \/ ~({"viewCount", "likeCount", "favoriteCount", "commentCount"}
                       \subseteq DOMAIN item.statistics)
    ELSE \/ "snippet" \notin DOMAIN item
         \/ ~({"topLevelComment", "totalReplyCount"} \subseteq DOMAIN item.snippet)
         \/ ~({"textDisplay", "publishedAt", "authorDisplayName", "likeCount"}
                 \subseteq DOMAIN item.snippet.topLevelComment.snippet)
         \/ item.snippet.totalReplyCount > 0 /\ "replies" \notin DOMAIN item

\* What the claim says of a thread's replies: the texts of the reply snippets
\* it carries, in their order, when its reply count is positive; none otherwise.
ExpectedReplies(item) ==
    IF item.snippet.totalReplyCount > 0
    THEN [k \in 1..Len(item.replies.comments) |->
             item.replies.comments[k].snippet.textDisplay]
    ELSE <<>>

Resolvers == {"channel_id", "uploads_id"}

\* C5: an access of channel_id or uploads_id whose lookup returned more than
\* one item raises RuntimeError, returns no identifier and stores nothing;
\* and an access yields a value without a lookup only when the property has
\* returned a value before, so after the error the next access looks up again.
C5_Ambiguity ==
    ret.op \in Resolvers =>
        /\ (response.of = "channels" /\ Len(response.items) > 1) =>
              /\ ret.exc = "RuntimeError"
              /\ ret.id = ""
              /\ ret.op \notin cached
              /\ ret.op \notin seen
        /\ calls = <<>> => (ret.exc = "" /\ ret.op \in seen)

\* channel_id raised on a lookup of two items.
C5_Witness ==
    /\ ret.op = "channel_id"
    /\ response.of = "channels" /\ Len(response.items) = 2
    /\ ret.exc = "RuntimeError"
    /\ "channel_id" \notin cached

\* ------------------------------------------------------------ C6

Properties == {"channel_id", "uploads_id", "video_ids", "comment_threads"}

\* The value the last operation returned, when it was the access of `name`.
ValueReturned(name) == IF name \in Resolvers THEN ret.id ELSE ret.ids

\* C6: once a property has returned a value, the object holds that value for
\* good: it stays stored and unchanged, the body of the property never runs
\* again (so no request is executed for it), and every later access returns
\* the value returned first, whatever the API would answer now.
C6_Memoized ==
    /\ \A name \in seen : name \in cached /\ attrs[name] = first[name]
    /\ reran = {}
    /\ (ret.op \in Properties /\ ret.exc = "") =>
          /\ ret.op \in seen
          /\ ValueReturned(ret.op) = first[ret.op]

\* channel_id returned from the object, with no request, the id it returned
\* first, while the API now gives another channel for the handle.
C6_Witness ==
    /\ ret.op = "channel_id" /\ ret.exc = "" /\ calls = <<>>
    /\ ret.id = "UC1"
    /\ channels = <<ChannelItem(2)>>

\* ------------------------------------------------------------ C7

RowKey(row) == IF self = "Channel" THEN row.video_id ELSE row.comment

BatchKeys(batch) ==
    [k \in 1..Len(batch) |-> IF self = "Channel" THEN batch[k] ELSE Str(batch[k])]

Without(s, d) == SubSeq(s, 1, d - 1) \o SubSeq(s, d + 1, Len(s))

\* The rows of `table` are those of the ids of `batch`, in the batch's order,
\* where the response left at most one id out.
RowsOf(table, batch) ==
    LET keys == [k \in 1..Len(table) |-> RowKey(table[k])] IN
    \/ keys = BatchKeys(batch)
    \/ \E d \in 1..Len(batch) : keys = Without(BatchKeys(batch), d)

\* C7: in a fetch, the k-th batch request is for the k-th run of 50 ids of
\* the list in pagination order; a batch is requested only when the tables of
\* all the batches before it have been appended; the k-th table appended holds
\* the rows of the k-th batch; and df, from the empty table on, is the tables
\* appended so far one after the other, which is what the fetch returns.
C7_Ordering ==
    (Fetching /\ ListName \in cached) =>
        /\ \A k \in 1..Len(Batches) :
              Batches[k] = Slice(IdList, (k - 1) * BatchSize, k * BatchSize)
        /\ Len(Batches) =
              Len(tables) + (IF pc = "concat" \/ ret.exc # "" THEN 1 ELSE 0)
        /\ \A k \in 1..Len(tables) : RowsOf(tables[k], Batches[k])
        /\ pc # "idle" => df = Flat(tables)
        /\ (pc = "idle" /\ ret.exc = "") => ret.table = Flat(tables)

\* A fetch that returned the rows of two batches.
C7_Witness ==
    /\ Fetching /\ pc = "idle" /\ ret.exc = ""
    /\ Len(tables) = 2
    /\ Len(tables[1]) = BatchSize
    /\ tables[2] # <<>>
    /\ ret.table = tables[1] \o tables[2]

\* ------------------------------------------------------------ C8

\* C8: when an item of a batch response lacks a field the flattener reads,
\* the fetch has ended with a KeyError: no table of that batch exists, none
\* was appended, no later batch is requested, and the fetch returns no table,
\* the rows of the earlier batches included.
C8_MissingField ==
    (response.of = "batch"
        /\ \E k \in 1..Len(ItemsServed) : LacksField(ItemsServed[k])) =>
        /\ Fetching
        /\ pc = "idle"
        /\ ret.exc = "KeyError"
        /\ ret.table = <<>>
        /\ df = <<>> /\ df2 = <<>>
        /\ Len(Batches) = Len(tables) + 1

\* A video without tags in the second batch, after a first batch of 50 rows.
C8_Witness ==
    /\ ret.op = "fetch_videos" /\ ret.exc = "KeyError"
    /\ response.what = "notags"
    /\ Len(tables) = 1 /\ Len(tables[1]) = VideoBatchSize
    /\ ret.table = <<>>

\* ------------------------------------------------------------ C9

\* C9: an access of channel_id or uploads_id whose lookup returned no item
\* raises IndexError, not the ambiguity error, returns no identifier and
\* stores nothing; and a lookup's access returns an identifier, that of the
\* one item, exactly when the response holds exactly one item.
C9_Empty ==
    (ret.op \in Resolvers /\ response.of = "channels") =>
        /\ Len(response.items) = 0 =>
              /\ ret.exc = "IndexError"
              /\ ret.id = ""
              /\ ret.op \notin cached
        /\ (ret.exc = "" /\ ret.id # "") <=> Len(response.items) = 1
        /\ ret.exc # "" => ret.id = ""
        /\ Len(response.items) = 1 =>
              /\ ret.id = IF ret.op = "channel_id"
                          THEN response.items[1].id
                          ELSE response.items[1].contentDetails
                                  .relatedPlaylists.uploads
              /\ ret.op \in cached
              /\ attrs[ret.op] = ret.id

\* uploads_id raised IndexError on an empty lookup.
C9_Witness ==
    /\ ret.op = "uploads_id"
    /\ response.of = "channels" /\ response.items = <<>>
    /\ ret.exc = "IndexError"
    /\ "uploads_id" \notin cached

\* ------------------------------------------------------------ C10

\* C10: once the listing has ended on an execute() that raised, its partial
\* list is the memoized value for good: it stays stored, the listing never
\* runs again, an operation other than the one that listed executes no
\* listing request, and every fetch batches exactly the partial list.
C10_TruncatedMemoized ==
    (listing.ran /\ listing.stop = "execute") =>
        /\ ListName \in cached
        /\ IdList = first[ListName]
        /\ ListName \notin reran
        /\ ~listing.current => ListCalls = <<>>
        /\ Fetching =>
              /\ IsPrefix(Flat(Batches), first[ListName])
              /\ (pc = "idle" /\ ret.exc = "") => Flat(Batches) = first[ListName]

\* A fetch, begun after the operation that listed, returned the rows of a
\* partial list.
C10_Witness ==
    /\ listing.ran /\ listing.stop = "execute" /\ ~listing.current
    /\ Fetching /\ pc = "idle" /\ ret.exc = ""
    /\ Len(Batches) >= 1
    /\ ListCalls = <<>>
    /\ Flat(Batches) = first[ListName]

====
